---- MODULE Spec2Model ----
(***************************************************************************)
(* Model of schnetpack/sacred/dataset_ingredients.py: the configuration    *)
(* profiles of the "dataset" ingredient, get_property_map and get_dataset. *)
(*                                                                         *)
(* Python strings are sequences of one-character strings, so that split,   *)
(* upper and os.path.splitext are computed character by character.         *)
(* Python objects are tagged records [type |-> ..., val |-> ...].          *)
(***************************************************************************)
EXTENDS Integers, Sequences, FiniteSets, TLC

VARIABLES
    stage,      \* where the run is: "idle", "configured", "map_cfg", "data_cfg", "path_cfg", "done"
    profile,    \* the named profile the run was started with ("" for none)
    config,     \* the resolved configuration of the dataset ingredient
    files,      \* the '.db' files the converter has written to disk
    heap,       \* the objects of the last get_property_map call, by address
    call,       \* the last call of a captured function and its arguments
    outcome,    \* what that call returned or raised
    trace       \* the collaborator invocations that call made, in order

vars == <<stage, profile, config, files, heap, call, outcome, trace>>

(***************************************************************************)
(* Bounds of the model.                                                    *)
(***************************************************************************)
\* longest requested-property list
MaxProps == 2
\* longest "key:value" entry of a string-form property mapping, in characters
MaxEntryLen == 3
\* how many letters of a dataset tag are lower-cased at once (besides all of them)
MaxLowered == 1

(***************************************************************************)
(* Python values.                                                          *)
(***************************************************************************)
Str(s) == [type |-> "str", val |-> s]
Dict(f) == [type |-> "dict", val |-> f]
List(s) == [type |-> "list", val |-> s]
Num(n) == [type |-> "number", val |-> n]
None == [type |-> "NoneType", val |-> <<>>]

EmptyDict == [k \in {} |-> <<>>]

\* d[k] = v on a dict
Put(f, k, v) == [x \in (DOMAIN f) \cup {k} |-> IF x = k THEN v ELSE f[x]]

\* all sequences over S of length at most n
SeqsUpTo(S, n) == UNION {[1..k -> S] : k \in 0..n}

\* str.split(sep): every occurrence of sep cuts; the result has one more
\* element than s has occurrences of sep
RECURSIVE SplitFrom(_, _, _, _)
SplitFrom(s, sep, i, cur) ==
    IF i > Len(s) THEN <<cur>>
    ELSE IF s[i] = sep THEN <<cur>> \o SplitFrom(s, sep, i + 1, <<>>)
    ELSE SplitFrom(s, sep, i + 1, Append(cur, s[i]))

split(s, sep) == SplitFrom(s, sep, 1, <<>>)

(***************************************************************************)
(* Names imported from the rest of the package.  Properties.energy and     *)
(* Properties.forces are the strings "energy" and "forces"; the dataset    *)
(* column names are kept symbolic, one symbol each.                        *)
(***************************************************************************)
Properties_energy == <<"e", "n", "e", "r", "g", "y">>
Properties_forces == <<"f", "o", "r", "c", "e", "s">>
Properties_dipole_moment == <<"Properties.dipole_moment">>
Properties_iso_polarizability == <<"Properties.iso_polarizability">>
Properties_energy_contributions == <<"Properties.energy_contributions">>
ISO17_E == <<"ISO17.E">>
ISO17_F == <<"ISO17.F">>
QM9_U0 == <<"QM9.U0">>
QM9_mu == <<"QM9.mu">>
QM9_alpha == <<"QM9.alpha">>
ANI1_energy == <<"ANI1.energy">>
MD17_energy == <<"MD17.energy">>
MD17_forces == <<"MD17.forces">>
MaterialsProject_EPerAtom == <<"MaterialsProject.EPerAtom">>

(***************************************************************************)
(* The configuration profiles.  A profile is a function from the names it  *)
(* assigns to their values.                                                *)
(***************************************************************************)
cfg ==
    [dbpath |-> None,
     dataset |-> Str(<<"C", "U", "S", "T", "O", "M">>),
     property_mapping |-> Dict(Put(Put(EmptyDict, Properties_energy, ISO17_E),
                                   Properties_forces, ISO17_F))]

custom ==
    [dbpath |-> Str(<<".", "/", "d", "a", "t", "a", "/", "i", "s", "o", "1", "7", "/",
                      "r", "e", "f", "e", "r", "e", "n", "c", "e", "_", "e", "q",
                      ".", "d", "b">>),
     fold |-> Str(<<"r", "e", "f", "e", "r", "e", "n", "c", "e">>),
     property_mapping |-> Dict(Put(Put(EmptyDict, Properties_energy, ISO17_E),
                                   Properties_forces, ISO17_F))]

qm9 ==
    [dbpath |-> Str(<<".", "/", "d", "a", "t", "a", "/", "q", "m", "9", ".", "d", "b">>),
     dataset |-> Str(<<"Q", "M", "9">>),
     property_mapping |-> Dict(Put(Put(Put(EmptyDict, Properties_energy, QM9_U0),
                                       Properties_dipole_moment, QM9_mu),
                                   Properties_iso_polarizability, QM9_alpha))]

\* the iso17 profile had it left out its fold
iso17_without_fold ==
    [dbpath |-> Str(<<".", "/", "d", "a", "t", "a">>),
     dataset |-> Str(<<"I", "S", "O", "1", "7">>),
     property_mapping |-> Dict(Put(Put(EmptyDict, Properties_energy, ISO17_E),
                                   Properties_forces, ISO17_F))]

iso17 ==
    [dbpath |-> Str(<<".", "/", "d", "a", "t", "a">>),
     dataset |-> Str(<<"I", "S", "O", "1", "7">>),
     fold |-> Str(<<"r", "e", "f", "e", "r", "e", "n", "c", "e">>),
     property_mapping |-> Dict(Put(Put(EmptyDict, Properties_energy, ISO17_E),
                                   Properties_forces, ISO17_F))]

ani1 ==
    [dbpath |-> Str(<<".", "/", "d", "a", "t", "a", "/", "a", "n", "i", "1", ".", "d", "b">>),
     dataset |-> Str(<<"A", "N", "I", "1">>),
     num_heavy_atoms |-> Num(2),
     property_mapping |-> Dict(Put(EmptyDict, Properties_energy, ANI1_energy))]

md17 ==
    [dbpath |-> Str(<<".", "/", "d", "a", "t", "a">>),
     dataset |-> Str(<<"M", "D", "1", "7">>),
     molecule |-> Str(<<"a", "s", "p", "i", "r", "i", "n">>),
     property_mapping |-> Dict(Put(Put(EmptyDict, Properties_energy, MD17_energy),
                                   Properties_forces, MD17_forces))]

matproj ==
    [dbpath |-> Str(<<".", "/", "d", "a", "t", "a", "/", "m", "a", "t", "p", "r", "o", "j",
                      ".", "d", "b">>),
     dataset |-> Str(<<"M", "A", "T", "P", "R", "O", "J">>),
     cutoff |-> Num(5),
     api_key |-> Str(<<>>),
     property_mapping |-> Dict(Put(EmptyDict, Properties_energy_contributions,
                                   MaterialsProject_EPerAtom))]

\* the named profiles by name; "" selects no named profile (the base profile alone)
NamedConfigs ==
    [n \in {"", "custom", "qm9", "iso17", "ani1", "md17", "matproj"} |->
        CASE n = "" -> [k \in {} |-> None]
          [] n = "custom" -> custom
          [] n = "qm9" -> qm9
          [] n = "iso17" -> iso17
          [] n = "ani1" -> ani1
          [] n = "md17" -> md17
          [] n = "matproj" -> matproj]

\* a named profile is applied over the base profile: it adds and overrides names
Resolve(n) ==
    LET named == NamedConfigs[n]
    IN  [k \in (DOMAIN cfg) \cup (DOMAIN named) |->
            IF k \in DOMAIN named THEN named[k] ELSE cfg[k]]

\* the configuration with one name set by the user
Update(c, k, v) == [x \in (DOMAIN c) \cup {k} |-> IF x = k THEN v ELSE c[x]]

(***************************************************************************)
(* get_property_map                                                        *)
(***************************************************************************)
Return(h, v) == [heap |-> h, result |-> [kind |-> "return", value |-> v]]
Raise(h, exc, args) == [heap |-> h, result |-> [kind |-> "raise", exc |-> exc, args |-> args]]

\* the pairs of the list comprehension: one split entry per comma-separated entry
SplitEntries(s) ==
    LET entries == split(s, ",")
    IN  [i \in 1..Len(entries) |-> split(entries[i], ":")]

\* "key, value = pair" needs exactly two elements
Unpacks(pairs) == \A i \in 1..Len(pairs) : Len(pairs[i]) = 2

\* the dict comprehension: a later entry replaces an earlier one with the same key
RECURSIVE DictOf(_, _)
DictOf(pairs, n) ==
    IF n = 0 THEN EmptyDict
    ELSE Put(DictOf(pairs, n - 1), pairs[n][1], pairs[n][2])

\* the mapping the function works on: the caller's object, or a new dict parsed
\* from the caller's string
NormalizeMapping(h, property_mapping) ==
    IF h[property_mapping].type = "str"
    THEN LET pairs == SplitEntries(h[property_mapping].val)
         IN  IF Unpacks(pairs)
             THEN [ok |-> TRUE, heap |-> Append(h, Dict(DictOf(pairs, Len(pairs)))),
                   ref |-> Len(h) + 1]
             ELSE [ok |-> FALSE, heap |-> h, ref |-> property_mapping]
    ELSE [ok |-> TRUE, heap |-> h, ref |-> property_mapping]

\* property_map = property_mapping: the result is the caller's own object
AliasedPropertyMap(h, property_mapping) ==
    [heap |-> h, ref |-> property_mapping]

\* property_map = dict(property_mapping): the result starts as a full copy
CopiedPropertyMap(h, property_mapping) ==
    [heap |-> Append(h, h[property_mapping]), ref |-> Len(h) + 1]

\* property_map = {}
NewPropertyMap(h, property_mapping) ==
    [heap |-> Append(h, Dict(EmptyDict)), ref |-> Len(h) + 1]

\* property_map[prop] = property_mapping[prop]
StoreProperty(h, property_map, property_mapping, prop) ==
    [h EXCEPT ![property_map].val = Put(@, prop, h[property_mapping].val[prop])]

\* the arguments of the message's format call, in the order of its slots
MissingPropertyArgs(prop, dbpath) == <<Str(prop), dbpath>>

\* the loop had it passed over a missing property instead of raising
RECURSIVE PropertyLoopSkipping(_, _, _, _, _, _)
PropertyLoopSkipping(h, props, i, property_mapping, property_map, dbpath) ==
    IF i > Len(props) THEN Return(h, property_map)
    ELSE IF props[i] \in DOMAIN h[property_mapping].val
         THEN PropertyLoopSkipping(StoreProperty(h, property_map, property_mapping, props[i]),
                                   props, i + 1, property_mapping, property_map, dbpath)
         ELSE PropertyLoopSkipping(h, props, i + 1, property_mapping, property_map, dbpath)

\* for prop in properties: ...
RECURSIVE PropertyLoop(_, _, _, _, _, _)
PropertyLoop(h, props, i, property_mapping, property_map, dbpath) ==
    IF i > Len(props) THEN Return(h, property_map)
    ELSE IF props[i] \in DOMAIN h[property_mapping].val
         THEN PropertyLoop(StoreProperty(h, property_map, property_mapping, props[i]),
                           props, i + 1, property_mapping, property_map, dbpath)
         ELSE Raise(h, "AtomsDataError", MissingPropertyArgs(props[i], dbpath))

\* properties and property_mapping are addresses of the caller's objects in h
get_property_map(h, properties, property_mapping, dbpath) ==
    LET m == NormalizeMapping(h, property_mapping)
    IN  IF ~m.ok THEN Raise(h, "ValueError", <<>>)
        ELSE LET pm == NewPropertyMap(m.heap, m.ref)
             IN  PropertyLoop(pm.heap, h[properties].val, 1, m.ref, pm.ref, dbpath)

(***************************************************************************)
(* str.upper and os.path.splitext                                          *)
(***************************************************************************)
LowerCase ==
    [A |-> "a", B |-> "b", C |-> "c", D |-> "d", E |-> "e", F |-> "f", G |-> "g",
     H |-> "h", I |-> "i", J |-> "j", K |-> "k", L |-> "l", M |-> "m", N |-> "n",
     O |-> "o", P |-> "p", Q |-> "q", R |-> "r", S |-> "s", T |-> "t", U |-> "u",
     V |-> "v", W |-> "w", X |-> "x", Y |-> "y", Z |-> "z"]

UpperChar(c) ==
    IF \E u \in DOMAIN LowerCase : LowerCase[u] = c
    THEN CHOOSE u \in DOMAIN LowerCase : LowerCase[u] = c
    ELSE c

\* the dispatch had it compared the tag as given
CaseSensitive(s) == s

\* dataset.upper()
upper(s) == [i \in 1..Len(s) |-> UpperChar(s[i])]

\* str.rfind(c), counted from 1; 0 when c does not occur
LastIndexOf(p, c) ==
    LET at == {i \in 1..Len(p) : p[i] = c}
    IN  IF at = {} THEN 0 ELSE CHOOSE i \in at : \A j \in at : j <= i

\* os.path.splitext(p): the extension starts at the last dot of the last path
\* component, unless only dots precede it in that component
splitext(p) ==
    LET sepIndex == LastIndexOf(p, "/")
        dotIndex == LastIndexOf(p, ".")
    IN  IF dotIndex > sepIndex /\ \E k \in (sepIndex + 1)..(dotIndex - 1) : p[k] # "."
        THEN <<SubSeq(p, 1, dotIndex - 1), SubSeq(p, dotIndex, Len(p))>>
        ELSE <<p, <<>>>>

(***************************************************************************)
(* The collaborators: a call of one is recorded with its positional and    *)
(* keyword arguments.                                                      *)
(***************************************************************************)
Invoke(callee, args, kwargs) == [callee |-> callee, args |-> args, kwargs |-> kwargs]

Result(tr, out, fs) == [trace |-> tr, outcome |-> out, files |-> fs]
Returned(v) == [kind |-> "return", value |-> v]
Raised(exc) == [kind |-> "raise", exc |-> exc, args |-> <<>>]

\* a captured function's parameters that the call does not pass come from the
\* configuration; the call fails when the configuration has no value for one
Bound(c, names) == names \subseteq DOMAIN c

\* return ANI1(dbpath, num_heavy_atoms=num_heavy_atoms, properties=dataset_properties)
get_ani1(c, dataset_properties) ==
    IF Bound(c, {"dbpath", "num_heavy_atoms"})
    THEN Returned(Invoke("ANI1", <<c.dbpath>>,
                         [num_heavy_atoms |-> c.num_heavy_atoms,
                          properties |-> dataset_properties]))
    ELSE Raised("MissingConfigError")

\* return MaterialsProject(dbpath, cutoff, api_key, properties=dataset_properties)
get_matproj(c, dataset_properties) ==
    IF Bound(c, {"dbpath", "cutoff", "api_key"})
    THEN Returned(Invoke("MaterialsProject", <<c.dbpath, c.cutoff, c.api_key>>,
                         [properties |-> dataset_properties]))
    ELSE Raised("MissingConfigError")

\* return ISO17(dbpath, fold, properties=dataset_properties)
get_iso17(c, dataset_properties) ==
    IF Bound(c, {"dbpath", "fold"})
    THEN Returned(Invoke("ISO17", <<c.dbpath, c.fold>>,
                         [properties |-> dataset_properties]))
    ELSE Raised("MissingConfigError")

\* return MD17(dbpath, molecule=molecule, properties=dataset_properties)
get_md17(c, dataset_properties) ==
    IF Bound(c, {"dbpath", "molecule"})
    THEN Returned(Invoke("MD17", <<c.dbpath>>,
                         [molecule |-> c.molecule, properties |-> dataset_properties]))
    ELSE Raised("MissingConfigError")

\* the trace and result of a call that ends in "return loader(...)"
Loaded(tr, fs, r) ==
    IF r.kind = "return" THEN Result(Append(tr, r.value), r, fs) ELSE Result(tr, r, fs)

(***************************************************************************)
(* get_dataset                                                             *)
(***************************************************************************)
dot_db == <<".", "d", "b">>
dot_xyz == <<".", "x", "y", "z">>

\* the else branch had it opened the path as a database
OpenedAnyway(tr, fs, dbpath, dataset_properties) ==
    LET opened == Invoke("AtomsData", <<dbpath>>, [required_properties |-> dataset_properties])
    IN  Result(Append(tr, opened), Returned(opened), fs)

\* the CUSTOM branch's else: raise NotImplementedError
UnsupportedExtension(tr, fs, dbpath, dataset_properties) ==
    Result(tr, Raised("NotImplementedError"), fs)

\* return AtomsData(dbpath, required_properties=dataset_properties)
OpenDatabase(tr, fs, dbpath, dataset_properties) ==
    LET opened == Invoke("AtomsData", <<dbpath>>, [required_properties |-> dataset_properties])
    IN  Result(Append(tr, opened), Returned(opened), fs)

\* the conversion had it been skipped when the destination exists
ConvertIfAbsent(tr, fs, file, dbpath, dataset_properties) ==
    LET target == Str(file \o dot_db)
        convert == Invoke("ext_xyz_to_db", <<>>, [dbpath |-> target, xyzpath |-> dbpath])
        opened == Invoke("AtomsData", <<target>>, [required_properties |-> dataset_properties])
    IN  IF target \in fs
        THEN Result(Append(tr, opened), Returned(opened), fs)
        ELSE Result(tr \o <<convert, opened>>, Returned(opened), fs \cup {target})

\* the conversion had its source and destination been exchanged
ConvertSwapped(tr, fs, file, dbpath, dataset_properties) ==
    LET target == Str(file \o dot_db)
        convert == Invoke("ext_xyz_to_db", <<>>, [dbpath |-> dbpath, xyzpath |-> target])
        opened == Invoke("AtomsData", <<target>>, [required_properties |-> dataset_properties])
    IN  Result(tr \o <<convert, opened>>, Returned(opened), fs \cup {dbpath})

\* ext_xyz_to_db(dbpath=file+'.db', xyzpath=dbpath)
\* return AtomsData(file+'.db', required_properties=dataset_properties)
\* The converter leaves a database at its destination.
ConvertAndOpen(tr, fs, file, dbpath, dataset_properties) ==
    LET target == Str(file \o dot_db)
        convert == Invoke("ext_xyz_to_db", <<>>, [dbpath |-> target, xyzpath |-> dbpath])
        opened == Invoke("AtomsData", <<target>>, [required_properties |-> dataset_properties])
    IN  Result(tr \o <<convert, opened>>, Returned(opened), fs \cup {target})

\* the CUSTOM branch; os.path.splitext takes a string and nothing else
CustomDataset(tr, fs, dbpath, dataset_properties) ==
    IF dbpath.type # "str" THEN Result(tr, Raised("TypeError"), fs)
    ELSE LET file == splitext(dbpath.val)[1]
             extension == splitext(dbpath.val)[2]
         IN  IF extension = dot_db
             THEN OpenDatabase(tr, fs, dbpath, dataset_properties)
             ELSE IF extension = dot_xyz
             THEN ConvertAndOpen(tr, fs, file, dbpath, dataset_properties)
             ELSE UnsupportedExtension(tr, fs, dbpath, dataset_properties)

\* the dispatch had it treated an unknown tag as CUSTOM
TreatedAsCustom(tr, fs, dbpath, dataset_properties) ==
    CustomDataset(tr, fs, dbpath, dataset_properties)

\* the dispatch's else: raise NotImplementedError
UnsupportedDataset(tr, fs, dbpath, dataset_properties) ==
    Result(tr, Raised("NotImplementedError"), fs)

\* return QM9(dbpath, properties=dataset_properties)
LoadQM9(tr, fs, c, dbpath, dataset_properties) ==
    LET made == Invoke("QM9", <<dbpath>>, [properties |-> dataset_properties])
    IN  Result(Append(tr, made), Returned(made), fs)

TagQM9 == <<"Q", "M", "9">>
TagISO17 == <<"I", "S", "O", "1", "7">>
TagANI1 == <<"A", "N", "I", "1">>
TagMD17 == <<"M", "D", "1", "7">>
TagMATPROJ == <<"M", "A", "T", "P", "R", "O", "J">>
TagCUSTOM == <<"C", "U", "S", "T", "O", "M">>

\* c is the configuration, fs the files on disk; dbpath and dataset are the
\* function's own parameters
get_dataset(c, fs, dbpath, dataset, dataset_properties) ==
    LET tag == upper(dataset.val)
        tr == <<Invoke("_log.info", <<Str(tag)>>, EmptyDict)>>
    IN  IF tag = TagQM9 THEN LoadQM9(tr, fs, c, dbpath, dataset_properties)
        ELSE IF tag = TagISO17 THEN Loaded(tr, fs, get_iso17(c, dataset_properties))
        ELSE IF tag = TagANI1 THEN Loaded(tr, fs, get_ani1(c, dataset_properties))
        ELSE IF tag = TagMD17 THEN Loaded(tr, fs, get_md17(c, dataset_properties))
        ELSE IF tag = TagMATPROJ THEN Loaded(tr, fs, get_matproj(c, dataset_properties))
        ELSE IF tag = TagCUSTOM THEN CustomDataset(tr, fs, dbpath, dataset_properties)
        ELSE UnsupportedDataset(tr, fs, dbpath, dataset_properties)

(***************************************************************************)
(* The inputs the model draws.                                             *)
(***************************************************************************)
\* requested model properties
PropertyNames == {Properties_energy, <<"a">>, <<"a", "a">>}
PropertyLists == SeqsUpTo(PropertyNames, MaxProps)

\* string-form property mappings: one or two entries over the letters a and ':',
\* and the mapping "energy:E,forces:F"
Entries == SeqsUpTo({"a", ":"}, MaxEntryLen)
ExampleMapping ==
    <<"e", "n", "e", "r", "g", "y", ":", "E", ",",
      "f", "o", "r", "c", "e", "s", ":", "F">>
MappingStrings ==
    Entries \cup {e1 \o <<",">> \o e2 : e1 \in Entries, e2 \in Entries} \cup {ExampleMapping}

\* dataset tags: the six kinds and three tags that are none of them, in mixed case
BaseTags ==
    {TagQM9, TagISO17, TagANI1, TagMD17, TagMATPROJ, TagCUSTOM,
     <<"F", "O", "O", "B", "A", "R">>, <<"Q", "M">>, <<>>}
Letters(t) == {i \in 1..Len(t) : t[i] \in DOMAIN LowerCase}
Lowered(t, S) == [i \in 1..Len(t) |-> IF i \in S THEN LowerCase[t[i]] ELSE t[i]]
Tags ==
    UNION {{Lowered(t, S) : S \in {X \in SUBSET Letters(t) :
                                      Cardinality(X) <= MaxLowered \/ X = Letters(t)}}
           : t \in BaseTags}

\* database paths: a stem and an extension
Stems == {<<>>, <<"d", ".", "e", "/">>, <<"d", ".", "e", "/", "f">>}
Extensions ==
    {<<>>, dot_db, dot_xyz, <<".", "b", "i", "n">>, <<".", "X", "Y", "Z">>,
     dot_xyz \o dot_db}
Paths == {s \o e : s \in Stems, e \in Extensions}

\* the dataset_properties argument: its default, or a list
DatasetProperties == {None, List(<<>>), List(<<ISO17_E, ISO17_F>>)}

(***************************************************************************)
(* The run: the configuration is resolved from a named profile and the     *)
(* user's updates, then a captured function is called with it.             *)
(***************************************************************************)
NoCall == [fn |-> "none"]
NoOutcome == [kind |-> "none"]

Init ==
    /\ stage = "idle"
    /\ profile = ""
    /\ config = cfg
    /\ files = {}
    /\ heap = <<>>
    /\ call = NoCall
    /\ outcome = NoOutcome
    /\ trace = <<>>

NamedConfig(n) ==
    /\ stage \in {"idle", "done"}
    /\ stage' = "configured"
    /\ profile' = n
    /\ config' = Resolve(n)
    /\ heap' = <<>>
    /\ call' = NoCall
    /\ outcome' = NoOutcome
    /\ trace' = <<>>
    /\ UNCHANGED files

UpdatePropertyMapping(s) ==
    /\ stage = "configured"
    /\ stage' = "map_cfg"
    /\ config' = Update(config, "property_mapping", Str(s))
    /\ UNCHANGED <<profile, files, heap, call, outcome, trace>>

UpdateDataset(t) ==
    /\ stage = "configured"
    /\ stage' = "data_cfg"
    /\ config' = Update(config, "dataset", Str(t))
    /\ UNCHANGED <<profile, files, heap, call, outcome, trace>>

UpdateDbpath(p) ==
    /\ stage \in {"configured", "data_cfg"}
    /\ stage' = "path_cfg"
    /\ config' = Update(config, "dbpath", Str(p))
    /\ UNCHANGED <<profile, files, heap, call, outcome, trace>>

\* the caller's list is at address 1 and the configured mapping at address 2
CallGetPropertyMap(props) ==
    /\ stage \in {"configured", "map_cfg"}
    /\ LET h0 == <<List(props), config.property_mapping>>
           r == get_property_map(h0, 1, 2, config.dbpath)
       IN  /\ call' = [fn |-> "get_property_map", properties |-> 1, property_mapping |-> 2,
                       dbpath |-> config.dbpath, heap0 |-> h0]
           /\ heap' = r.heap
           /\ outcome' = r.result
    /\ stage' = "done"
    /\ trace' = <<>>
    /\ UNCHANGED <<profile, config, files>>

CallGetDataset(dp) ==
    /\ stage \in {"configured", "data_cfg", "path_cfg"}
    /\ LET r == get_dataset(config, files, config.dbpath, config.dataset, dp)
       IN  /\ call' = [fn |-> "get_dataset", dbpath |-> config.dbpath,
                       dataset |-> config.dataset, dataset_properties |-> dp,
                       files0 |-> files]
           /\ trace' = r.trace
           /\ outcome' = r.outcome
           /\ files' = r.files
    /\ stage' = "done"
    /\ heap' = <<>>
    /\ UNCHANGED <<profile, config>>

Next ==
    \/ \E n \in DOMAIN NamedConfigs : NamedConfig(n)
    \/ \E s \in MappingStrings : UpdatePropertyMapping(s)
    \/ \E t \in Tags : UpdateDataset(t)
    \/ \E p \in Paths : UpdateDbpath(p)
    \/ \E props \in PropertyLists : CallGetPropertyMap(props)
    \/ \E dp \in DatasetProperties : CallGetDataset(dp)

Spec == Init /\ [][Next]_vars

(***************************************************************************)
(* Vocabulary of the properties.                                           *)
(***************************************************************************)
Range(s) == {s[i] : i \in 1..Len(s)}

\* the last call was get_property_map, on requested list P and caller's mapping
MapCalled == call.fn = "get_property_map"
RequestedP == call.heap0[call.properties].val
GivenMapping == call.heap0[call.property_mapping]

\* the first element of P, in P's order, that is no key of M
FirstMissing(P, M) ==
    P[CHOOSE i \in 1..Len(P) :
        /\ P[i] \notin DOMAIN M
        /\ \A j \in 1..(i - 1) : P[j] \in DOMAIN M]

\* what the call answered is the mapping M restricted to the elements of P
ReturnsRestriction(P, M) ==
    /\ outcome.kind = "return"
    /\ heap[outcome.value].type = "dict"
    /\ DOMAIN heap[outcome.value].val = Range(P)
    /\ \A p \in Range(P) : heap[outcome.value].val[p] = M[p]

\* the call failed with the domain error naming prop and the database path
FailsNaming(prop) ==
    /\ outcome.kind = "raise"
    /\ outcome.exc = "AtomsDataError"
    /\ outcome.args = <<Str(prop), call.dbpath>>

\* C1: whenever every requested property is a key of the structured mapping M,
\* get_property_map returns a mapping whose keys are exactly the elements of P
\* and whose value at each key p is M[p]; no other key of M appears.
C1_RestrictedToRequested ==
    (MapCalled /\ GivenMapping.type = "dict" /\ Range(RequestedP) \subseteq DOMAIN GivenMapping.val)
        => ReturnsRestriction(RequestedP, GivenMapping.val)

\* a call that asked for some but not all keys of the mapping, and returned
C1_Witness ==
    /\ MapCalled
    /\ GivenMapping.type = "dict"
    /\ RequestedP # <<>>
    /\ Range(RequestedP) \subseteq DOMAIN GivenMapping.val
    /\ Range(RequestedP) # DOMAIN GivenMapping.val
    /\ outcome.kind = "return"

\* C2: whenever some requested property is no key of the structured mapping M,
\* get_property_map raises AtomsDataError and returns nothing; the error's
\* arguments are the first such property, in the order of P, and the database path.
C2_FailsOnFirstMissing ==
    (MapCalled /\ GivenMapping.type = "dict" /\ ~(Range(RequestedP) \subseteq DOMAIN GivenMapping.val))
        => FailsNaming(FirstMissing(RequestedP, GivenMapping.val))

\* a call whose two requested properties differ and are both missing: it failed
C2_Witness ==
    /\ MapCalled
    /\ GivenMapping.type = "dict"
    /\ Len(RequestedP) = 2
    /\ RequestedP[1] # RequestedP[2]
    /\ RequestedP[1] \notin DOMAIN GivenMapping.val
    /\ RequestedP[2] \notin DOMAIN GivenMapping.val
    /\ outcome.kind = "raise"

\* the parse the specification describes: each comma-separated entry is cut at
\* its first colon, the key before it and the value all the text after it
FirstColon(e) == CHOOSE i \in 1..Len(e) : e[i] = ":" /\ \A j \in 1..(i - 1) : e[j] # ":"
RECURSIVE FirstColonDict(_, _)
FirstColonDict(entries, n) ==
    IF n = 0 THEN EmptyDict
    ELSE LET e == entries[n]
         IN  Put(FirstColonDict(entries, n - 1),
                 SubSeq(e, 1, FirstColon(e) - 1), SubSeq(e, FirstColon(e) + 1, Len(e)))
EveryEntryHasColon(s) == \A i \in 1..Len(split(s, ",")) : ":" \in Range(split(s, ",")[i])
FirstColonParse(s) == FirstColonDict(split(s, ","), Len(split(s, ",")))

\* C7: a string-form mapping, each entry of which has a colon, behaves as the
\* structured mapping that has, per entry, the text before the first colon as
\* key and all the text after it as value.
C7_StringParsedAtFirstColon ==
    (MapCalled /\ GivenMapping.type = "str" /\ EveryEntryHasColon(GivenMapping.val))
        => LET M == FirstColonParse(GivenMapping.val)
           IN  IF Range(RequestedP) \subseteq DOMAIN M
               THEN ReturnsRestriction(RequestedP, M)
               ELSE FailsNaming(FirstMissing(RequestedP, M))

\* C9: get_property_map leaves the caller's properties list and property
\* mapping as they were, whether it returns or raises, and what it returns is
\* an object that did not exist before the call.
C9_NoSideEffects ==
    MapCalled =>
        /\ Len(heap) >= Len(call.heap0)
        /\ \A a \in 1..Len(call.heap0) : heap[a] = call.heap0[a]
        /\ outcome.kind = "return" => outcome.value \notin 1..Len(call.heap0)

\* a call on a structured mapping that returned a non-empty mapping
C9_Witness ==
    /\ MapCalled
    /\ GivenMapping.type = "dict"
    /\ outcome.kind = "return"
    /\ heap[outcome.value].val # EmptyDict

(***************************************************************************)
(* Vocabulary of the dispatcher's properties.                              *)
(***************************************************************************)
DataCalled == call.fn = "get_dataset"

\* t spells K in some letter case
Spells(t, K) ==
    /\ Len(t) = Len(K)
    /\ \A i \in 1..Len(K) :
           t[i] = K[i] \/ (K[i] \in DOMAIN LowerCase /\ t[i] = LowerCase[K[i]])

KnownTags == {TagQM9, TagISO17, TagANI1, TagMD17, TagMATPROJ, TagCUSTOM}

\* what the call invoked besides the logger: constructors and the converter
Work == SelectSeq(trace, LAMBDA e : e.callee # "_log.info")
Positions(callee) == {i \in 1..Len(trace) : trace[i].callee = callee}

CustomCalledOn(ext) ==
    /\ DataCalled
    /\ Spells(call.dataset.val, TagCUSTOM)
    /\ call.dbpath.type = "str"
    /\ splitext(call.dbpath.val)[2] = ext

\* the called path with its last four characters, the '.xyz', replaced by '.db'
XyzTarget == Str(SubSeq(call.dbpath.val, 1, Len(call.dbpath.val) - 4) \o dot_db)

OpenOf(path) == Invoke("AtomsData", <<path>>, [required_properties |-> call.dataset_properties])

\* C3: a CUSTOM call on a '.xyz' path invokes the converter with that path as
\* source and the path with '.db' for '.xyz' as destination, then opens and
\* returns the database at the destination; a CUSTOM call on a '.db' path
\* opens and returns the database at that path and invokes no converter.
C3_CustomConvertsThenOpens ==
    /\ CustomCalledOn(dot_xyz) =>
           /\ Work = <<Invoke("ext_xyz_to_db", <<>>,
                              [dbpath |-> XyzTarget, xyzpath |-> call.dbpath]),
                       OpenOf(XyzTarget)>>
           /\ outcome = Returned(OpenOf(XyzTarget))
    /\ CustomCalledOn(dot_db) =>
           /\ Work = <<OpenOf(call.dbpath)>>
           /\ outcome = Returned(OpenOf(call.dbpath))

\* a lower-case "custom" call on d.e/f.xyz that returned a database
C3_Witness ==
    /\ CustomCalledOn(dot_xyz)
    /\ call.dataset.val = <<"c", "u", "s", "t", "o", "m">>
    /\ call.dbpath.val = <<"d", ".", "e", "/", "f">> \o dot_xyz
    /\ outcome.kind = "return"

\* C4: a CUSTOM call on a path whose extension is neither '.db' nor '.xyz'
\* raises NotImplementedError, having invoked neither the converter nor a
\* constructor and having written no file.
C4_OtherExtensionUnsupported ==
    (/\ DataCalled
     /\ Spells(call.dataset.val, TagCUSTOM)
     /\ call.dbpath.type = "str"
     /\ splitext(call.dbpath.val)[2] \notin {dot_db, dot_xyz}) =>
        /\ outcome = Raised("NotImplementedError")
        /\ Work = <<>>
        /\ files = call.files0

\* a CUSTOM call on d.e/f.bin, after an earlier run had written a file
C4_Witness ==
    /\ CustomCalledOn(<<".", "b", "i", "n">>)
    /\ call.dbpath.val = <<"d", ".", "e", "/", "f", ".", "b", "i", "n">>
    /\ call.files0 # {}
    /\ outcome.kind = "raise"

\* C5: a call whose tag spells none of the six kinds in any letter case raises
\* NotImplementedError, having invoked neither a constructor nor the converter
\* and having written no file, whatever the configuration is.
C5_UnknownTagUnsupported ==
    (DataCalled /\ ~\E K \in KnownTags : Spells(call.dataset.val, K)) =>
        /\ outcome = Raised("NotImplementedError")
        /\ Work = <<>>
        /\ files = call.files0

\* a call with the tag "foobar" on a '.xyz' path
C5_Witness ==
    /\ DataCalled
    /\ call.dataset.val = <<"f", "o", "o", "b", "a", "r">>
    /\ call.dbpath.type = "str"
    /\ splitext(call.dbpath.val)[2] = dot_xyz
    /\ outcome.kind = "raise"

\* the parameters each kind's loader takes from the configuration
KindParameters(K) ==
    CASE K = TagISO17 -> {"dbpath", "fold"}
      [] K = TagANI1 -> {"dbpath", "num_heavy_atoms"}
      [] K = TagMD17 -> {"dbpath", "molecule"}
      [] K = TagMATPROJ -> {"dbpath", "cutoff", "api_key"}
      [] OTHER -> {}

\* the one construction the kind K stands for
ConstructionOf(K) ==
    CASE K = TagQM9 ->
            Invoke("QM9", <<call.dbpath>>, [properties |-> call.dataset_properties])
      [] K = TagISO17 ->
            Invoke("ISO17", <<config.dbpath, config.fold>>,
                   [properties |-> call.dataset_properties])
      [] K = TagANI1 ->
            Invoke("ANI1", <<config.dbpath>>,
                   [num_heavy_atoms |-> config.num_heavy_atoms,
                    properties |-> call.dataset_properties])
      [] K = TagMD17 ->
            Invoke("MD17", <<config.dbpath>>,
                   [molecule |-> config.molecule, properties |-> call.dataset_properties])
      [] K = TagMATPROJ ->
            Invoke("MaterialsProject", <<config.dbpath, config.cutoff, config.api_key>>,
                   [properties |-> call.dataset_properties])

\* C6: a call whose tag spells QM9, ISO17, ANI1, MD17 or MATPROJ in any letter
\* case constructs exactly one dataset, of that kind, with the kind's
\* parameters and no other: QM9 (path, properties), ISO17 (path, fold,
\* properties), ANI1 (path, num_heavy_atoms, properties), MD17 (path, molecule,
\* properties), MaterialsProject (path, cutoff, api_key, properties), the
\* kind-specific parameters being those the configuration gives; a call for
\* which the configuration gives none constructs nothing and fails.
C6_DispatchOnUppercasedTag ==
    \A K \in KnownTags \ {TagCUSTOM} :
        (DataCalled /\ Spells(call.dataset.val, K)) =>
            IF KindParameters(K) \subseteq DOMAIN config
            THEN /\ Work = <<ConstructionOf(K)>>
                 /\ outcome = Returned(ConstructionOf(K))
            ELSE /\ Work = <<>>
                 /\ outcome.kind = "raise"

\* a call tagged "matproj" in lower case under the matproj profile, which built
\* a MaterialsProject dataset
C6_Witness ==
    /\ DataCalled
    /\ profile = "matproj"
    /\ call.dataset.val = <<"m", "a", "t", "p", "r", "o", "j">>
    /\ outcome.kind = "return"
    /\ outcome.value.callee = "MaterialsProject"

\* the kind a resolved configuration stands for
ResolvedKind == CHOOSE K \in KnownTags : Spells(config.dataset.val, K)

ProfileDeclares ==
    /\ {"dbpath", "dataset", "property_mapping"} \subseteq DOMAIN config
    /\ config.dataset.type = "str"
    /\ config.property_mapping.type = "dict"
    /\ KindParameters(ResolvedKind) \subseteq DOMAIN config

\* C8 as claimed: every profile, the base profile included, resolves to a
\* configuration with a database path, a dataset tag, a property mapping and
\* the parameters of its kind.
C8_EveryProfileSuppliesPath ==
    stage = "configured" => (ProfileDeclares /\ config.dbpath.type = "str")

\* C8: every profile resolves to a configuration that has dbpath, a dataset
\* tag, a structured property mapping and the parameters of the kind the tag
\* names; dbpath is a path in every named profile and None, no path, in the
\* base profile.
C8_ProfilesSupply ==
    stage = "configured" =>
        /\ ProfileDeclares
        /\ config.dbpath.type = (IF profile = "" THEN "NoneType" ELSE "str")

\* the custom profile resolved: its tag is the base profile's
C8_Witness ==
    /\ stage = "configured"
    /\ profile = "custom"
    /\ config.dataset.val = TagCUSTOM
    /\ "fold" \in DOMAIN config

\* C10: every CUSTOM call on a '.xyz' path invokes the converter exactly once,
\* and before it opens the database, whether or not the destination '.db'
\* already exists from an earlier call.
C10_ConvertsOnEveryCall ==
    CustomCalledOn(dot_xyz) =>
        /\ Cardinality(Positions("ext_xyz_to_db")) = 1
        /\ Cardinality(Positions("AtomsData")) = 1
        /\ \A i \in Positions("ext_xyz_to_db") : \A j \in Positions("AtomsData") : i < j

\* a CUSTOM call on a '.xyz' path whose '.db' an earlier call had written
C10_Witness ==
    /\ CustomCalledOn(dot_xyz)
    /\ XyzTarget \in call.files0
    /\ Positions("ext_xyz_to_db") # {}

====
